---- MODULE Spec2Model ----
(***************************************************************************)
(* NILE scoring engine (backend/nile/services/nile_scorer.py).             *)
(*                                                                         *)
(* The engine is a set of pure functions over float and int inputs.        *)
(* Floats are modelled as exact fixed-point numbers: a score, and every    *)
(* float input, is an integer number of units of 1/SCALE point, with       *)
(* SCALE = 7300 so that 0.01 (73 units), 6.67 and age_days/365*20 are all  *)
(* exact.  A weight is an integer number of hundredths (WSCALE = 100).     *)
(* The one place where binary floating point decides an outcome that the   *)
(* exact value does not is round(total, 2) on an exact decimal tie         *)
(* (x.xx5): the float that Python rounds is the nearest double, above or   *)
(* below the tie.  The direction is fixed by the platform's arithmetic and *)
(* unknown to the model: fp_tie_up is chosen in Init and never changes.    *)
(*                                                                         *)
(* The state a call could touch is the module-level list GRADE_MAP         *)
(* (grade_map) and the argument objects of the call (call), which are      *)
(* mutable in Python.  memo and calls_done are history: what each          *)
(* finished call was given, left behind and returned, in order.            *)
(*                                                                         *)
(* The Discord relay (discord/bot.py) is a second machine with its own     *)
(* specification, BotSpec: pc is the position of the _listen_events        *)
(* coroutine, redis and _channels are the fields it reads, consumed and    *)
(* last are history (how many messages it has handled and what it did      *)
(* with the last one), failed_before says that an earlier one failed.      *)
(***************************************************************************)
EXTENDS Integers, Sequences, FiniteSets, TLC

VARIABLES call, result, raised, fp_tie_up, grade_map, memo, calls_done,
          pc, redis, _channels, consumed, failed_before, last

scorer_vars == <<call, result, raised, fp_tie_up, grade_map, memo, calls_done>>

bot_vars == <<pc, redis, _channels, consumed, failed_before, last>>

vars == <<scorer_vars, bot_vars>>

\* ---------------------------------------------------------------- numbers

CENT == 73 * 1                 \* units in 0.01 point
SCALE == CENT * 100            \* units in 1 point
WSCALE == 10 * 10              \* weight units in a weight of 1.0

Pt(n) == n * SCALE             \* n whole points
Cents(n) == n * CENT           \* n hundredths of a point
Tenths(n) == n * 10 * CENT     \* n tenths of a point

min(a, b) == IF b < a THEN b ELSE a
max(a, b) == IF b > a THEN b ELSE a

\* round(x, 2) of a value held in units of 1/(100*den): the number of
\* hundredths nearest to it; an exact tie goes the way tie_up says.
round(x, den, tie_up) ==
    LET q == x \div den
        r == x % den
    IN  IF 2 * r < den THEN q
        ELSE IF 2 * r > den THEN q + 1
        ELSE IF tie_up THEN q + 1 ELSE q

\* ---------------------------------------------------------------- data

None == <<>>
Some(v) == <<v>>

NameInputs(is_verified, audit_count, age_days, team_identified, ecosystem_score) ==
    [is_verified |-> is_verified, audit_count |-> audit_count, age_days |-> age_days,
     team_identified |-> team_identified, ecosystem_score |-> ecosystem_score]

ImageInputs(open_critical, open_high, open_medium, avg_patch_time_days, trend) ==
    [open_critical |-> open_critical, open_high |-> open_high,
     open_medium |-> open_medium, avg_patch_time_days |-> avg_patch_time_days,
     trend |-> trend]

LikenessInputs(slither_findings, evmbench_pattern_matches) ==
    [slither_findings |-> slither_findings,
     evmbench_pattern_matches |-> evmbench_pattern_matches]

EssenceInputs(test_coverage_pct, avg_cyclomatic_complexity, has_proxy_pattern, has_admin_keys, has_timelock, external_call_count) ==
    [test_coverage_pct |-> test_coverage_pct,
     avg_cyclomatic_complexity |-> avg_cyclomatic_complexity,
     has_proxy_pattern |-> has_proxy_pattern, has_admin_keys |-> has_admin_keys,
     has_timelock |-> has_timelock, external_call_count |-> external_call_count]

GRADE_MAP == << <<Pt(90), "A+">>, <<Pt(80), "A">>, <<Pt(70), "B">>,
                <<Pt(60), "C">>, <<Pt(50), "D">>, <<Pt(0), "F">> >>

\* ---------------------------------------------------------------- calculators

clamp_no_floor(value, lo, hi) == min(hi, value)

_clamp(value, lo, hi) == max(lo, min(hi, value))

\* a penalty per audit where a credit is meant
audit_score_penalty(inputs) == Pt(20) - min(Pt(20), inputs.audit_count * Cents(667))

audit_score_uncapped(inputs) == inputs.audit_count * Cents(667)

audit_score(inputs) == min(Pt(20), inputs.audit_count * Cents(667))

compute_name_score(inputs) ==
    LET source_score == IF inputs.is_verified THEN Pt(20) ELSE 0
        maturity_score == IF inputs.age_days > 0
                          THEN min(Pt(20), (inputs.age_days * 20 * SCALE) \div 365)
                          ELSE 0
        team_score == IF inputs.team_identified THEN Pt(20) ELSE Pt(5)
        ecosystem == min(Pt(20), inputs.ecosystem_score)
        total == _clamp(source_score + audit_score(inputs) + maturity_score + team_score
                        + ecosystem, 0, Pt(100))
        details == [source_verified |-> source_score,
                    audit_history |-> audit_score(inputs),
                    maturity |-> maturity_score,
                    team_identification |-> team_score,
                    ecosystem_presence |-> ecosystem]
    IN  <<total, details>>

patch_bonus_unfloored(inputs) ==
    IF inputs.avg_patch_time_days # None
    THEN Pt(10) - inputs.avg_patch_time_days[1]
    ELSE 0

patch_bonus(inputs) ==
    IF inputs.avg_patch_time_days # None
    THEN max(0, Pt(10) - inputs.avg_patch_time_days[1])
    ELSE 0

compute_image_score(inputs) ==
    LET base == Pt(100) - inputs.open_critical * Pt(25)
                        - inputs.open_high * Pt(15)
                        - inputs.open_medium * Pt(5)
        total == _clamp(base + patch_bonus(inputs) + inputs.trend, 0, Pt(100))
        details == [base_from_vulns |-> base,
                    patch_cadence_bonus |-> patch_bonus(inputs),
                    trend_adjustment |-> inputs.trend,
                    open_critical |-> inputs.open_critical,
                    open_high |-> inputs.open_high,
                    open_medium |-> inputs.open_medium]
    IN  <<total, details>>

\* dict.get(key, default) on a record standing for a dict
get(d, key, default) == IF key \in DOMAIN d THEN d[key] ELSE default

severity_penalty == [high |-> 15, medium |-> 8, low |-> 3, info |-> 0]

finding_penalty_fail_closed(finding) ==
    LET sev == get(finding, "severity", "high")
    IN  Pt(get(severity_penalty, sev, 15))

\* one turn of the loop over slither_findings
finding_penalty(finding) ==
    LET sev == get(finding, "severity", "info")
    IN  Pt(get(severity_penalty, sev, 0))

match_penalty_inclusive(match) ==
    LET confidence == get(match, "confidence", 0)
    IN  IF confidence >= Tenths(8) THEN Pt(20)
        ELSE IF confidence >= Tenths(6) THEN Pt(10)
        ELSE IF confidence >= Tenths(4) THEN Pt(5)
        ELSE 0

\* one turn of the loop over evmbench_pattern_matches
match_penalty(match) ==
    LET confidence == get(match, "confidence", 0)
    IN  IF confidence > Tenths(8) THEN Pt(20)
        ELSE IF confidence > Tenths(6) THEN Pt(10)
        ELSE IF confidence > Tenths(4) THEN Pt(5)
        ELSE 0

\* a loop that leaves at the first finding that costs nothing
RECURSIVE slither_loop_break(_, _)
slither_loop_break(findings, slither_deductions) ==
    IF findings = <<>> THEN slither_deductions
    ELSE IF finding_penalty(Head(findings)) = 0 THEN slither_deductions
    ELSE slither_loop_break(Tail(findings),
                            slither_deductions + finding_penalty(Head(findings)))

RECURSIVE slither_loop(_, _)
slither_loop(findings, slither_deductions) ==
    IF findings = <<>> THEN slither_deductions
    ELSE slither_loop(Tail(findings), slither_deductions + finding_penalty(Head(findings)))

RECURSIVE pattern_loop(_, _)
pattern_loop(matches, pattern_deductions) ==
    IF matches = <<>> THEN pattern_deductions
    ELSE pattern_loop(Tail(matches), pattern_deductions + match_penalty(Head(matches)))

compute_likeness_score(inputs) ==
    LET score == Pt(100)
        slither_deductions == slither_loop(inputs.slither_findings, 0)
        pattern_deductions == pattern_loop(inputs.evmbench_pattern_matches, 0)
        total == _clamp(score - slither_deductions - pattern_deductions, 0, Pt(100))
        details == [slither_deductions |-> slither_deductions,
                    pattern_match_deductions |-> pattern_deductions,
                    slither_finding_count |-> Len(inputs.slither_findings),
                    evmbench_match_count |-> Len(inputs.evmbench_pattern_matches)]
    IN  <<total, details>>

\* x * 0.25 and x * 2.5 are exact here for every x that is a whole number of
\* tenths of a point, as all the inputs drawn below are.
complexity_score_uncapped(inputs) ==
    max(0, Pt(25) - ((inputs.avg_cyclomatic_complexity - Pt(5)) * 25) \div 10)

complexity_score(inputs) ==
    min(Pt(25),
        max(0, Pt(25) - ((inputs.avg_cyclomatic_complexity - Pt(5)) * 25) \div 10))

dep_score_unfloored(inputs) == Pt(25) - inputs.external_call_count * Pt(2)

dep_score(inputs) == max(0, Pt(25) - inputs.external_call_count * Pt(2))

compute_essence_score(inputs) ==
    LET coverage == min(Pt(25), (inputs.test_coverage_pct * 25) \div 100)
        upgrade_score == Pt(25)
                         - (IF inputs.has_proxy_pattern THEN Pt(10) ELSE 0)
                         - (IF inputs.has_admin_keys THEN Pt(5) ELSE 0)
                         - (IF ~inputs.has_timelock THEN Pt(5) ELSE 0)
        total == _clamp(coverage + complexity_score(inputs) + upgrade_score
                        + dep_score(inputs), 0, Pt(100))
        details == [test_coverage |-> coverage,
                    complexity |-> complexity_score(inputs),
                    upgrade_risk |-> upgrade_score,
                    dependency_risk |-> dep_score(inputs)]
    IN  <<total, details>>

\* ---------------------------------------------------------------- combiner

WeightKeys == {"name", "image", "likeness", "essence"}

DefaultWeights == [k \in WeightKeys |-> 25]

RECURSIVE grade_loop_exclusive(_, _)
grade_loop_exclusive(total, i) ==
    IF i > Len(grade_map) THEN "F"
    ELSE IF Cents(total) > grade_map[i][1] THEN grade_map[i][2]
    ELSE grade_loop_exclusive(total, i + 1)

\* the for loop over the module-level GRADE_MAP (grade_map), from entry i
\* on; total is in hundredths
RECURSIVE grade_loop(_, _)
grade_loop(total, i) ==
    IF i > Len(grade_map) THEN "F"
    ELSE IF Cents(total) >= grade_map[i][1] THEN grade_map[i][2]
    ELSE grade_loop(total, i + 1)

\* The unrounded weighted sum, in units of 1/(SCALE*WSCALE) point.
weighted_sum(name_score, image_score, likeness_score, essence_score, w) ==
    name_score * w["name"] + image_score * w["image"]
    + likeness_score * w["likeness"] + essence_score * w["essence"]

\* compute_nile_score with the essence details taken from the likeness call
compute_nile_score_shared_details(name_inputs, image_inputs, likeness_inputs, essence_inputs, weights, tie_up) ==
    LET w == IF DOMAIN weights # {} THEN weights ELSE DefaultWeights
        name == compute_name_score(name_inputs)
        image == compute_image_score(image_inputs)
        likeness == compute_likeness_score(likeness_inputs)
        essence == compute_essence_score(essence_inputs)
        total == round(weighted_sum(name[1], image[1], likeness[1], essence[1], w),
                       CENT * WSCALE, tie_up)
    IN  IF ~(WeightKeys \subseteq DOMAIN w)
        THEN [raised |-> "KeyError", value |-> <<>>]
        ELSE [raised |-> "none",
              value |-> [total_score |-> total,
                         name_score |-> round(name[1], CENT, tie_up),
                         image_score |-> round(image[1], CENT, tie_up),
                         likeness_score |-> round(likeness[1], CENT, tie_up),
                         essence_score |-> round(essence[1], CENT, tie_up),
                         grade |-> grade_loop(total, 1),
                         details |-> [name |-> name[2], image |-> image[2],
                                      likeness |-> likeness[2],
                                      essence |-> likeness[2]]]]

\* weights = <<>> stands for both None and {}, which `weights or {...}`
\* treats alike.  The outcome is [raised, value]: raised is "KeyError" when
\* a subscript w[k] names a key the mapping lacks, and then there is no value.
compute_nile_score(name_inputs, image_inputs, likeness_inputs, essence_inputs, weights, tie_up) ==
    LET w == IF DOMAIN weights # {} THEN weights ELSE DefaultWeights
        name == compute_name_score(name_inputs)
        image == compute_image_score(image_inputs)
        likeness == compute_likeness_score(likeness_inputs)
        essence == compute_essence_score(essence_inputs)
        total == round(weighted_sum(name[1], image[1], likeness[1], essence[1], w),
                       CENT * WSCALE, tie_up)
    IN  IF ~(WeightKeys \subseteq DOMAIN w)
        THEN [raised |-> "KeyError", value |-> <<>>]
        ELSE [raised |-> "none",
              value |-> [total_score |-> total,
                         name_score |-> round(name[1], CENT, tie_up),
                         image_score |-> round(image[1], CENT, tie_up),
                         likeness_score |-> round(likeness[1], CENT, tie_up),
                         essence_score |-> round(essence[1], CENT, tie_up),
                         grade |-> grade_loop(total, 1),
                         details |-> [name |-> name[2], image |-> image[2],
                                      likeness |-> likeness[2],
                                      essence |-> essence[2]]]]


\* ---------------------------------------------------------------- inputs

MaxAudit == 4
MaxOpen == 2
MaxItems == 3
MaxRepeat == 7
MaxExternalCalls == 13

Audits == -1 .. MaxAudit
AgeDays == {-5, 0, 73, 365, 730}
EcosystemScores == {Pt(-5), 0, Pt(10), Cents(1998), Cents(1999), Pt(20), Pt(25)}

NameInputsSet ==
    {NameInputs(v, a, d, t, e) :
        v \in BOOLEAN, a \in Audits, d \in AgeDays, t \in BOOLEAN,
        e \in EcosystemScores}

OpenCounts == -1 .. MaxOpen
PatchTimes == {None, Some(0), Some(Tenths(25)), Some(Pt(10)), Some(Pt(12))}
Trends == {Pt(-50), Pt(-10), 0, Tenths(25), Pt(10), Pt(50)}

ImageInputsSet ==
    {ImageInputs(c, h, m, p, t) :
        c \in OpenCounts, h \in OpenCounts, m \in OpenCounts,
        p \in PatchTimes, t \in Trends}

\* A finding is a dict: one with no "severity" key, and ones whose severity
\* is a known or an unknown string.
Findings ==
    {[check |-> "reentrancy"]}
    \cup {[severity |-> s] : s \in {"high", "medium", "low", "info", "critical", "High"}}

Matches ==
    {[pattern |-> "p"]}
    \cup {[confidence |-> c] :
            c \in {Tenths(4), Cents(41), Tenths(6), Cents(61), Tenths(8), Cents(81)}}

\* every pair of lists holding at most MaxItems records together
LikenessInputsSet ==
    UNION {UNION {{LikenessInputs(f, m) : f \in [1 .. k -> Findings],
                                          m \in [1 .. j -> Matches]} :
                    j \in 0 .. (MaxItems - k)} :
            k \in 0 .. MaxItems}

\* long lists: up to MaxRepeat copies of one finding and of one match
Repeat(x, n) == [i \in 1 .. n |-> x]

LongLikenessInputsSet ==
    {LikenessInputs(Repeat([severity |-> "high"], k),
                    Repeat([confidence |-> Cents(81)], j)) :
        k \in 0 .. MaxRepeat, j \in 0 .. MaxRepeat}

Coverages == {Pt(-4), 0, Pt(40), Pt(100), Pt(120)}
Complexities == {Pt(-3), 0, Pt(4), Pt(5), Tenths(55), Pt(10), Pt(15), Pt(20)}
ExternalCalls == 0 .. MaxExternalCalls

EssenceInputsSet ==
    {EssenceInputs(c, x, p, a, t, e) :
        c \in Coverages, x \in Complexities, p \in BOOLEAN, a \in BOOLEAN,
        t \in BOOLEAN, e \in ExternalCalls}

\* The records and weights that the combiner is exercised with.
NileNameInputs ==
    {NameInputs(TRUE, 3, 730, TRUE, Pt(20)),
     NameInputs(TRUE, 3, 730, TRUE, Cents(1999)),
     NameInputs(TRUE, 3, 730, TRUE, Cents(1998)),
     NameInputs(TRUE, 1, 73, FALSE, Pt(10)),
     NameInputs(FALSE, 0, 0, FALSE, 0)}

NileImageInputs ==
    {ImageInputs(0, 0, 0, None, 0),
     ImageInputs(1, 0, 0, None, 0),
     ImageInputs(2, 0, 0, None, 0)}

NileLikenessInputs ==
    {LikenessInputs(<<>>, <<>>),
     LikenessInputs(<<>>, <<[confidence |-> Cents(81)], [confidence |-> Cents(81)]>>)}

NileEssenceInputs ==
    {EssenceInputs(Pt(100), Pt(5), FALSE, FALSE, TRUE, 0),
     EssenceInputs(0, Pt(5), TRUE, TRUE, TRUE, 0),
     EssenceInputs(0, Pt(15), TRUE, TRUE, FALSE, 13)}

WeightValues == {-25, 25, 100}

\* every mapping over a subset of the four keys; the empty one is None / {}
WeightsSet == UNION {[K -> WeightValues] : K \in SUBSET WeightKeys}

\* ---------------------------------------------------------------- behaviour

NoResult == <<>>

Calls ==
    {[fn |-> "compute_name_score", inputs |-> i] : i \in NameInputsSet}
    \cup {[fn |-> "compute_image_score", inputs |-> i] : i \in ImageInputsSet}
    \cup {[fn |-> "compute_likeness_score", inputs |-> i] : i \in LikenessInputsSet \cup LongLikenessInputsSet}
    \cup {[fn |-> "compute_essence_score", inputs |-> i] : i \in EssenceInputsSet}
    \cup {[fn |-> "compute_nile_score", name_inputs |-> n, image_inputs |-> i,
           likeness_inputs |-> l, essence_inputs |-> e, weights |-> w] :
            n \in NileNameInputs, i \in NileImageInputs, l \in NileLikenessInputs,
            e \in NileEssenceInputs, w \in WeightsSet}

\* an iteration of the listener's loop that has not happened
NoMessage ==
    [type |-> "", data |-> "", routed |-> FALSE, target |-> "", sent |-> <<>>,
     logged |-> FALSE, task |-> FALSE, error |-> "none", escaped |-> FALSE]

\* the relay has not been constructed
NoBot ==
    /\ pc = "start"
    /\ redis = FALSE
    /\ _channels = {}
    /\ consumed = 0
    /\ failed_before = FALSE
    /\ last = NoMessage

\* what a finished call was given, left its arguments as, and gave back
Finished == [args |-> call, args_after |-> call', raised |-> raised', result |-> result']

Record ==
    /\ memo' = Append(memo, Finished)
    /\ calls_done' = calls_done + 1

\* The module is loaded and a caller has built the arguments of one call;
\* nothing has run yet.
InitWith(calls) ==
    /\ call \in calls
    /\ result = NoResult
    /\ raised = "pending"
    /\ fp_tie_up \in BOOLEAN
    /\ grade_map = GRADE_MAP
    /\ memo = <<>>
    /\ calls_done = 0
    /\ NoBot

Init == InitWith(Calls)

ComputeName ==
    /\ raised = "pending"
    /\ call.fn = "compute_name_score"
    /\ result' = compute_name_score(call.inputs)
    /\ raised' = "none"
    /\ UNCHANGED <<call, fp_tie_up, grade_map>>
    /\ Record
    /\ UNCHANGED bot_vars

ComputeImage ==
    /\ raised = "pending"
    /\ call.fn = "compute_image_score"
    /\ result' = compute_image_score(call.inputs)
    /\ raised' = "none"
    /\ UNCHANGED <<call, fp_tie_up, grade_map>>
    /\ Record
    /\ UNCHANGED bot_vars

ComputeLikeness ==
    /\ raised = "pending"
    /\ call.fn = "compute_likeness_score"
    /\ result' = compute_likeness_score(call.inputs)
    /\ raised' = "none"
    /\ UNCHANGED <<call, fp_tie_up, grade_map>>
    /\ Record
    /\ UNCHANGED bot_vars

ComputeEssence ==
    /\ raised = "pending"
    /\ call.fn = "compute_essence_score"
    /\ result' = compute_essence_score(call.inputs)
    /\ raised' = "none"
    /\ UNCHANGED <<call, fp_tie_up, grade_map>>
    /\ Record
    /\ UNCHANGED bot_vars

\* a combiner whose grade loop pops the entries of GRADE_MAP as it goes
ComputeNilePopping ==
    /\ raised = "pending"
    /\ call.fn = "compute_nile_score"
    /\ LET r == compute_nile_score(call.name_inputs, call.image_inputs,
                                   call.likeness_inputs, call.essence_inputs,
                                   call.weights, fp_tie_up)
       IN  /\ result' = r.value
           /\ raised' = r.raised
    /\ grade_map' = IF grade_map = <<>> THEN <<>> ELSE Tail(grade_map)
    /\ UNCHANGED <<call, fp_tie_up>>
    /\ Record
    /\ UNCHANGED bot_vars

ComputeNile ==
    /\ raised = "pending"
    /\ call.fn = "compute_nile_score"
    /\ LET r == compute_nile_score(call.name_inputs, call.image_inputs,
                                   call.likeness_inputs, call.essence_inputs,
                                   call.weights, fp_tie_up)
       IN  /\ result' = r.value
           /\ raised' = r.raised
    /\ UNCHANGED <<call, fp_tie_up, grade_map>>
    /\ Record
    /\ UNCHANGED bot_vars

Next ==
    \/ ComputeName
    \/ ComputeImage
    \/ ComputeLikeness
    \/ ComputeEssence
    \/ ComputeNile

Spec == Init /\ [][Next]_vars

\* ---- calls one after another

MaxCalls == 3

\* the calls that a caller makes one after another
SeqCalls ==
    {[fn |-> "compute_name_score", inputs |-> NameInputs(TRUE, 2, 365, FALSE, Pt(10))],
     [fn |-> "compute_image_score", inputs |-> ImageInputs(1, 1, 0, Some(Pt(2)), Pt(-5))],
     [fn |-> "compute_likeness_score",
      inputs |-> LikenessInputs(<<[severity |-> "high"]>>, <<[confidence |-> Cents(81)]>>)],
     [fn |-> "compute_essence_score",
      inputs |-> EssenceInputs(Pt(40), Pt(10), TRUE, FALSE, TRUE, 3)]}
    \cup {[fn |-> "compute_nile_score", name_inputs |-> n,
           image_inputs |-> ImageInputs(0, 0, 0, None, 0),
           likeness_inputs |-> LikenessInputs(<<>>, <<>>),
           essence_inputs |-> EssenceInputs(0, Pt(5), TRUE, TRUE, TRUE, 0),
           weights |-> w] :
            n \in {NameInputs(TRUE, 3, 730, TRUE, Cents(1998)),
                   NameInputs(FALSE, 0, 0, FALSE, 0)},
            w \in {<<>>, [name |-> 25], [k \in WeightKeys |-> 100]}}

\* the caller drops the result and builds the arguments of another call
NextCall ==
    /\ raised # "pending"
    /\ calls_done < MaxCalls
    /\ call' \in SeqCalls
    /\ result' = NoResult
    /\ raised' = "pending"
    /\ UNCHANGED <<fp_tie_up, grade_map, memo, calls_done>>
    /\ UNCHANGED bot_vars

InitSeq == InitWith(SeqCalls)

NextSeq ==
    \/ ComputeName
    \/ ComputeImage
    \/ ComputeLikeness
    \/ ComputeEssence
    \/ ComputeNile
    \/ NextCall

SpecSeq == InitSeq /\ [][NextSeq]_vars

(***************************************************************************)
(* The Discord relay: discord/bot.py, NileBot._listen_events               *)
(***************************************************************************)

\* a decoded JSON value: Python type and content
Dict(items) == [type |-> "dict", val |-> items]
List(items) == [type |-> "list", val |-> items]
Number(n) == [type |-> "int", val |-> n]
JsonNull == [type |-> "NoneType", val |-> <<>>]

\* json.loads on the texts that are published: the value, or the error
json_loads(data) ==
    CASE data = "{\"event_type\": \"contribution.detection\", \"metadata\": {\"severity\": \"critical\"}}"
           -> [raised |-> "none",
               value |-> Dict([event_type |-> "contribution.detection",
                               metadata |-> Dict([severity |-> "critical"])])]
      [] data = "{\"event_type\": \"contribution.detection\", \"metadata\": {\"severity\": \"high\"}}"
           -> [raised |-> "none",
               value |-> Dict([event_type |-> "contribution.detection",
                               metadata |-> Dict([severity |-> "high"])])]
      [] data = "{\"metadata\": {\"severity\": \"non-critical\"}}"
           -> [raised |-> "none",
               value |-> Dict([metadata |-> Dict([severity |-> "non-critical"])])]
      [] data = "{\"event_type\": \"scan.completed\", \"metadata\": {\"grade\": \"A\"}}"
           -> [raised |-> "none",
               value |-> Dict([event_type |-> "scan.completed",
                               metadata |-> Dict([grade |-> "A"])])]
      [] data = "{\"event_type\": \"agent.joined\", \"metadata\": {\"capabilities\": 3}}"
           -> [raised |-> "none",
               value |-> Dict([event_type |-> "agent.joined",
                               metadata |-> Dict([capabilities |-> Number(3)])])]
      [] data = "{\"event_type\": \"task.claimed\"}"
           -> [raised |-> "none", value |-> Dict([event_type |-> "task.claimed"])]
      [] data = "{\"event_type\": \"task.claimed\", \"metadata\": null}"
           -> [raised |-> "none",
               value |-> Dict([event_type |-> "task.claimed", metadata |-> JsonNull])]
      [] data = "[1, 2]"
           -> [raised |-> "none", value |-> List(<<1, 2>>)]
      [] OTHER -> [raised |-> "JSONDecodeError", value |-> JsonNull]

\* the texts for which  "critical" in text  is true, among those published
ContainsCritical == {"critical", "non-critical"}

\* _event_description: ', '.join(caps) raises unless caps is a list of str
event_description_raises(event_type, metadata) ==
    /\ event_type = "agent.joined"
    /\ get(metadata, "capabilities", List(<<>>)).type # "list"

\* what _route_event did: the channel it chose, the channels whose send it
\* called with the embed (send_ok: the call did not raise), whether it
\* spawned the screenshot task, and what it raised
Routed(raised_, target, sent, task) ==
    [raised |-> raised_, target |-> target, sent |-> sent, task |-> task]

route_event(event, channels, send_ok) ==
    IF event.type # "dict" THEN Routed("AttributeError", "", <<>>, FALSE)
    ELSE LET event_type == get(event.val, "event_type", "")
             metadata == get(event.val, "metadata", Dict(<<>>))
         IN  IF metadata.type # "dict" THEN Routed("AttributeError", "", <<>>, FALSE)
             ELSE LET channel_name ==
                          IF get(metadata.val, "severity", "") \in ContainsCritical
                          THEN "nile-alerts" ELSE "nile-feed"
                  IN  IF channel_name \notin channels
                      THEN Routed("none", channel_name, <<>>, FALSE)
                      ELSE IF event_description_raises(event_type, metadata.val)
                      THEN Routed("TypeError", channel_name, <<>>, FALSE)
                      ELSE IF ~send_ok
                      THEN Routed("HTTPException", channel_name, <<channel_name>>, FALSE)
                      ELSE Routed("none", channel_name, <<channel_name>>,
                                  event_type \in {"scan.completed", "agent.joined"})

\* what one iteration of the loop did with a message; escaped is the
\* exception that left the loop body
Iteration(message, routed, r, logged, escaped) ==
    [type |-> message.type, data |-> message.data, routed |-> routed,
     target |-> r.target, sent |-> r.sent, logged |-> logged, task |-> r.task,
     error |-> r.raised, escaped |-> escaped]

NotRouted(raised_) == Routed(raised_, "", <<>>, FALSE)

\* a loop body without the inner try
listen_body_uncaught(message, channels, send_ok) ==
    IF message.type # "message"
    THEN Iteration(message, FALSE, NotRouted("none"), FALSE, FALSE)
    ELSE LET event == json_loads(message.data)
         IN  IF event.raised # "none"
             THEN Iteration(message, FALSE, NotRouted(event.raised), FALSE, TRUE)
             ELSE LET r == route_event(event.value, channels, send_ok)
                  IN  Iteration(message, TRUE, r, FALSE, r.raised # "none")

\* the body of  async for message in pubsub.listen()
listen_body(message, channels, send_ok) ==
    IF message.type # "message"
    THEN Iteration(message, FALSE, NotRouted("none"), FALSE, FALSE)
    ELSE LET event == json_loads(message.data)
         IN  IF event.raised # "none"
             THEN Iteration(message, FALSE, NotRouted(event.raised), TRUE, FALSE)
             ELSE LET r == route_event(event.value, channels, send_ok)
                  IN  Iteration(message, TRUE, r, r.raised # "none", FALSE)

\* ---- the listener

MaxMessages == 3

\* the channels _route_event and its screenshot task look up
RoutedChannels == {"nile-feed", "nile-alerts", "nile-dashboard"}

\* what pubsub.listen() yields on the nile:events subscription
Messages ==
    {[type |-> "subscribe", data |-> "1"],
     [type |-> "pmessage", data |-> "{\"event_type\": \"task.claimed\"}"]}
    \cup {[type |-> "message", data |-> d] :
            d \in {"{\"event_type\": \"contribution.detection\", \"metadata\": {\"severity\": \"critical\"}}",
                   "{\"event_type\": \"contribution.detection\", \"metadata\": {\"severity\": \"high\"}}",
                   "{\"metadata\": {\"severity\": \"non-critical\"}}",
                   "{\"event_type\": \"scan.completed\", \"metadata\": {\"grade\": \"A\"}}",
                   "{\"event_type\": \"agent.joined\", \"metadata\": {\"capabilities\": 3}}",
                   "{\"event_type\": \"task.claimed\"}",
                   "{\"event_type\": \"task.claimed\", \"metadata\": null}",
                   "[1, 2]",
                   "not json"}}

\* on_ready has run _ensure_channels, which may have failed to create some
\* channels, and has created the listener task
BotInit ==
    /\ pc = "start"
    /\ redis \in BOOLEAN
    /\ _channels \in SUBSET RoutedChannels
    /\ consumed = 0
    /\ failed_before = FALSE
    /\ last = NoMessage
    /\ call = [fn |-> "none"]
    /\ result = NoResult
    /\ raised = "pending"
    /\ fp_tie_up = FALSE
    /\ grade_map = GRADE_MAP
    /\ memo = <<>>
    /\ calls_done = 0

\* if not self.redis: return
ReturnWithoutRedis ==
    /\ pc = "start"
    /\ ~redis
    /\ pc' = "returned"
    /\ UNCHANGED <<redis, _channels, consumed, failed_before, last>>
    /\ UNCHANGED scorer_vars

\* pubsub = self.redis.pubsub(); await pubsub.subscribe("nile:events")
Subscribe ==
    /\ pc = "start"
    /\ redis
    /\ pc' = "listening"
    /\ UNCHANGED <<redis, _channels, consumed, failed_before, last>>
    /\ UNCHANGED scorer_vars

\* one iteration of the loop; an exception that leaves the body runs the
\* finally clause and ends the coroutine
HandleMessage ==
    /\ pc = "listening"
    /\ consumed < MaxMessages
    /\ \E message \in Messages : \E send_ok \in BOOLEAN :
         LET it == listen_body(message, _channels, send_ok)
         IN  /\ last' = it
             /\ failed_before' = (failed_before \/ last.logged \/ last.escaped)
             /\ pc' = IF it.escaped THEN "closed" ELSE "listening"
    /\ consumed' = consumed + 1
    /\ UNCHANGED <<redis, _channels>>
    /\ UNCHANGED scorer_vars

\* pubsub.listen() ends or raises, or the task is cancelled: the finally
\* clause unsubscribes and closes
StreamEnds ==
    /\ pc = "listening"
    /\ pc' = "closed"
    /\ UNCHANGED <<redis, _channels, consumed, failed_before, last>>
    /\ UNCHANGED scorer_vars

BotNext ==
    \/ ReturnWithoutRedis
    \/ Subscribe
    \/ HandleMessage
    \/ StreamEnds

BotSpec == BotInit /\ [][BotNext]_vars

\* ---------------------------------------------------------------- claims

Returned(fn) == call.fn = fn /\ raised = "none"

Calculators == {"compute_name_score", "compute_image_score",
                "compute_likeness_score", "compute_essence_score"}

Grades == {"A+", "A", "B", "C", "D", "F"}

\* the four sub-scores of the current compute_nile_score call, unrounded
NileSubScores ==
    [name |-> compute_name_score(call.name_inputs)[1],
     image |-> compute_image_score(call.image_inputs)[1],
     likeness |-> compute_likeness_score(call.likeness_inputs)[1],
     essence |-> compute_essence_score(call.essence_inputs)[1]]

\* the weighted sum of the current call with the weights u, unrounded
NileSum(u) ==
    weighted_sum(NileSubScores.name, NileSubScores.image, NileSubScores.likeness,
                 NileSubScores.essence, u)

\* inputs inside their documented ranges
InRangeName(i) ==
    /\ i.audit_count >= 0
    /\ i.age_days >= 0
    /\ i.ecosystem_score >= 0 /\ i.ecosystem_score <= Pt(20)

InRangeImage(i) ==
    /\ i.open_critical >= 0 /\ i.open_high >= 0 /\ i.open_medium >= 0
    /\ i.avg_patch_time_days # None => i.avg_patch_time_days[1] >= 0
    /\ i.trend >= Pt(-10) /\ i.trend <= Pt(10)

\* C1: whenever compute_nile_score is called with a weight mapping that has
\* all four keys, the total_score it returns lies in [0, 100].  Stated here
\* for the mappings whose four weights are all non-negative, which the
\* claim includes.
C1_TotalInRange ==
    (/\ Returned("compute_nile_score")
     /\ DOMAIN call.weights = WeightKeys
     /\ \A k \in WeightKeys : call.weights[k] >= 0) =>
        (result.total_score >= 0 /\ result.total_score <= 100 * 100)

\* C2: a weight mapping lacking any subset of the four keys never makes
\* compute_nile_score fail; the total is the rounded weighted sum that uses
\* 0.25 for each absent key and the supplied weight for each present key.
\* Stated for the mappings whose weights are all non-negative.
C2_AbsentWeightIsQuarter ==
    (/\ call.fn = "compute_nile_score"
     /\ raised # "pending"
     /\ \A k \in DOMAIN call.weights : call.weights[k] >= 0) =>
        /\ raised = "none"
        /\ result.total_score =
              round(NileSum([k \in WeightKeys |->
                               IF k \in DOMAIN call.weights THEN call.weights[k]
                               ELSE 25]),
                    CENT * WSCALE, fp_tie_up)

\* C3: every sub-score a calculator returns lies in [0, 100], and the grade
\* compute_nile_score returns is one of A+, A, B, C, D, F.
C3_SubScoresAndGradeInRange ==
    /\ (raised = "none" /\ call.fn \in Calculators) =>
          (result[1] >= 0 /\ result[1] <= Pt(100))
    /\ Returned("compute_nile_score") =>
          /\ result.grade \in Grades
          /\ \A f \in {"name_score", "image_score", "likeness_score", "essence_score"} :
                result[f] >= 0 /\ result[f] <= 100 * 100

\* a calculator whose unclamped sum lies below 0 has returned 0
C3_Witness ==
    /\ Returned("compute_likeness_score")
    /\ result[2].slither_deductions + result[2].pattern_match_deductions > Pt(100)
    /\ result[1] = 0

\* C4: the grade is decided by the rounded total_score alone, lower bounds
\* inclusive: >= 90 A+, >= 80 A, >= 70 B, >= 60 C, >= 50 D, below 50 F.
C4_GradeFromRoundedTotal ==
    Returned("compute_nile_score") =>
        LET t == result.total_score
        IN  result.grade = CASE t >= 9000 -> "A+"
                             [] t >= 8000 /\ t < 9000 -> "A"
                             [] t >= 7000 /\ t < 8000 -> "B"
                             [] t >= 6000 /\ t < 7000 -> "C"
                             [] t >= 5000 /\ t < 6000 -> "D"
                             [] t < 5000 -> "F"

\* a weighted sum just below 90 that rounds to exactly 90.00 is graded A+
C4_Witness ==
    /\ Returned("compute_nile_score")
    /\ NileSum(IF DOMAIN call.weights = {} THEN DefaultWeights ELSE call.weights)
         < 9000 * CENT * WSCALE
    /\ result.total_score = 9000
    /\ result.grade = "A+"


\* ---- likeness

\* the penalty tiers of a confidence, as the claim C5 words them
TierOf(c) ==
    CASE c > Tenths(8) -> 20
      [] c > Tenths(6) /\ c <= Tenths(8) -> 10
      [] c > Tenths(4) /\ c <= Tenths(6) -> 5
      [] c <= Tenths(4) -> 0

RECURSIVE SumTiers(_)
SumTiers(matches) ==
    IF matches = <<>> THEN 0
    ELSE (IF "confidence" \in DOMAIN Head(matches)
          THEN TierOf(Head(matches).confidence) ELSE 0)
         + SumTiers(Tail(matches))

\* C5: each pattern match costs 20 above confidence 0.8, 10 above 0.6, 5
\* above 0.4 and 0 otherwise, the comparisons strict: a single match of
\* confidence exactly 0.8 costs 10, exactly 0.6 costs 5, exactly 0.4 costs 0.
C5_ConfidenceTiers ==
    Returned("compute_likeness_score") =>
        LET m == call.inputs.evmbench_pattern_matches
            single == Len(m) = 1 /\ call.inputs.slither_findings = <<>>
                      /\ "confidence" \in DOMAIN m[1]
        IN  /\ result[2].pattern_match_deductions = Pt(SumTiers(m))
            /\ (single /\ m[1].confidence = Tenths(8)) => result[1] = Pt(90)
            /\ (single /\ m[1].confidence = Tenths(6)) => result[1] = Pt(95)
            /\ (single /\ m[1].confidence = Tenths(4)) => result[1] = Pt(100)

\* a single match of confidence exactly 0.8 has cost 10
C5_Witness ==
    /\ Returned("compute_likeness_score")
    /\ call.inputs.slither_findings = <<>>
    /\ call.inputs.evmbench_pattern_matches = <<[confidence |-> Tenths(8)]>>
    /\ result[2].pattern_match_deductions = Pt(10)

KnownSeverities == {"high", "medium", "low", "info"}

IsKnown(finding) ==
    "severity" \in DOMAIN finding /\ finding.severity \in KnownSeverities

RECURSIVE SumKnown(_)
SumKnown(findings) ==
    IF findings = <<>> THEN 0
    ELSE (IF ~IsKnown(Head(findings)) THEN 0
          ELSE CASE Head(findings).severity = "high" -> 15
                 [] Head(findings).severity = "medium" -> 8
                 [] Head(findings).severity = "low" -> 3
                 [] Head(findings).severity = "info" -> 0)
         + SumKnown(Tail(findings))

\* C6: a finding whose severity is none of high, medium, low, info, or that
\* has no severity, never makes compute_likeness_score fail and costs 0: the
\* score equals the score of the input without such findings; the known
\* severities cost high 15, medium 8, low 3, info 0.
C6_UnknownSeverityCostsNothing ==
    (call.fn = "compute_likeness_score" /\ raised # "pending") =>
        LET known == SelectSeq(call.inputs.slither_findings, IsKnown)
        IN  /\ raised = "none"
            /\ result[2].slither_deductions = Pt(SumKnown(call.inputs.slither_findings))
            /\ result[1] =
                  compute_likeness_score(
                      [call.inputs EXCEPT !.slither_findings = known])[1]

\* a call with a finding without severity, one of unknown severity and a
\* high one has returned, 15 points deducted
C6_Witness ==
    /\ Returned("compute_likeness_score")
    /\ \E i \in DOMAIN call.inputs.slither_findings :
          "severity" \notin DOMAIN call.inputs.slither_findings[i]
    /\ \E i \in DOMAIN call.inputs.slither_findings :
          /\ "severity" \in DOMAIN call.inputs.slither_findings[i]
          /\ call.inputs.slither_findings[i].severity = "critical"
    /\ result[2].slither_deductions = Pt(15)
    /\ result[1] = Pt(85)

\* The rearrangements of a list of n records: every permutation of a short
\* list, every transposition of a longer one.
Rearrangements(n) ==
    IF n <= MaxItems + 1
    THEN Permutations(1 .. n)
    ELSE {[k \in 1 .. n |-> IF k = i THEN j ELSE IF k = j THEN i ELSE k] :
            i \in 1 .. n, j \in 1 .. n}

Rearranged(list, p) == [k \in 1 .. Len(list) |-> list[p[k]]]

\* C7: rearranging slither_findings or the pattern-match list leaves the
\* output of compute_likeness_score, score and details, unchanged.
C7_OrderIndependent ==
    Returned("compute_likeness_score") =>
        \A p \in Rearrangements(Len(call.inputs.slither_findings)) :
            \A q \in Rearrangements(Len(call.inputs.evmbench_pattern_matches)) :
                compute_likeness_score(
                    LikenessInputs(
                        Rearranged(call.inputs.slither_findings, p),
                        Rearranged(call.inputs.evmbench_pattern_matches, q)))
                = result

\* a call whose findings are three of three different costs has returned
C7_Witness ==
    /\ Returned("compute_likeness_score")
    /\ Len(call.inputs.slither_findings) = 3
    /\ Cardinality({finding_penalty(call.inputs.slither_findings[i]) : i \in 1 .. 3}) = 3
    /\ result[1] < Pt(100)

\* ---- image

\* the score the claim C8 gives for an image input
ImageFormula(inputs) ==
    LET bonus == IF inputs.avg_patch_time_days = None THEN 0
                 ELSE IF Pt(10) - inputs.avg_patch_time_days[1] > 0
                      THEN Pt(10) - inputs.avg_patch_time_days[1]
                      ELSE 0
        sum == Pt(100) - Pt(25) * inputs.open_critical - Pt(15) * inputs.open_high
               - Pt(5) * inputs.open_medium + bonus + inputs.trend
    IN  IF sum < 0 THEN 0 ELSE IF sum > Pt(100) THEN Pt(100) ELSE sum

\* C8 as claimed: the score is clamp(100 - 25c - 15h - 5m + bonus + trend),
\* the bonus is never negative, and a call without patch-time data never
\* scores lower than the same call with any patch-time value.  Stated for
\* the inputs inside their documented ranges.
C8_AbsentPatchTimeNeverLower ==
    (Returned("compute_image_score") /\ InRangeImage(call.inputs)) =>
        /\ result[1] = ImageFormula(call.inputs)
        /\ result[2].patch_cadence_bonus >= 0
        /\ call.inputs.avg_patch_time_days = None =>
             \A p \in PatchTimes :
                 result[1] >=
                   compute_image_score([call.inputs EXCEPT !.avg_patch_time_days = p])[1]

\* C8 as amended: the score is clamp(100 - 25c - 15h - 5m + bonus + trend),
\* bonus = max(0, 10 - avg_patch_time_days) with patch-time data and 0
\* without; the bonus is never negative, so a call with any patch-time value
\* never scores lower than the same call without patch-time data; one open
\* critical and nothing else gives 75.
C8_PresentPatchTimeNeverLower ==
    Returned("compute_image_score") =>
        /\ result[1] = ImageFormula(call.inputs)
        /\ result[2].patch_cadence_bonus >= 0
        /\ call.inputs.avg_patch_time_days = None => result[2].patch_cadence_bonus = 0
        /\ result[1] >=
             compute_image_score([call.inputs EXCEPT !.avg_patch_time_days = None])[1]
        /\ call.inputs = ImageInputs(1, 0, 0, None, 0) => result[1] = Pt(75)

\* a call with a patch time over 10 days has returned with no bonus and the
\* score of the same call without patch-time data
C8_Witness ==
    /\ Returned("compute_image_score")
    /\ InRangeImage(call.inputs)
    /\ call.inputs.avg_patch_time_days = Some(Pt(12))
    /\ result[2].patch_cadence_bonus = 0
    /\ result[1] > 0
    /\ result[1] < Pt(100)

\* ---- name

\* C9 as claimed: for audit_count >= 0 the audit_history contribution is
\* min(20, audit_count * 20/3).  Stated for the inputs inside their
\* documented ranges.
C9_AuditHistoryThirds ==
    (Returned("compute_name_score") /\ InRangeName(call.inputs)) =>
        3 * result[2].audit_history
          = (IF call.inputs.audit_count * Pt(20) < 3 * Pt(20)
             THEN call.inputs.audit_count * Pt(20) ELSE 3 * Pt(20))

\* C9 as amended: for audit_count >= 0 the audit_history contribution is
\* min(20, audit_count * 6.67): 0 for no audit, 6.67 for one, 13.34 for two
\* and exactly 20 for three or more.
C9_AuditHistoryCents ==
    (Returned("compute_name_score") /\ call.inputs.audit_count >= 0) =>
        result[2].audit_history =
            CASE call.inputs.audit_count = 0 -> 0
              [] call.inputs.audit_count = 1 -> Cents(667)
              [] call.inputs.audit_count = 2 -> Cents(1334)
              [] call.inputs.audit_count >= 3 -> Pt(20)

\* a call with three audits has returned an audit_history of exactly 20
C9_Witness ==
    /\ Returned("compute_name_score")
    /\ InRangeName(call.inputs)
    /\ call.inputs.audit_count = 3
    /\ result[2].audit_history = Pt(20)

\* ---- out-of-range inputs

Clamped(v, lo, hi) == IF v < lo THEN lo ELSE IF v > hi THEN hi ELSE v

\* C10: an input outside its documented range is clamped into it: the trend
\* adjustment of compute_image_score is clamp(trend, -10, 10), the
\* ecosystem_presence of compute_name_score is clamp(ecosystem_score, 0, 20),
\* and the result is the result for the clamped input.  Stated for the calls
\* whose other fields are inside their documented ranges.
C10_OutOfRangeInputsClamped ==
    /\ (/\ Returned("compute_image_score")
        /\ InRangeImage([call.inputs EXCEPT !.trend = 0])) =>
         /\ result[2].trend_adjustment = Clamped(call.inputs.trend, Pt(-10), Pt(10))
         /\ result = compute_image_score(
                [call.inputs EXCEPT !.trend = Clamped(call.inputs.trend, Pt(-10), Pt(10))])
    /\ (/\ Returned("compute_name_score")
        /\ InRangeName([call.inputs EXCEPT !.ecosystem_score = 0])) =>
         /\ result[2].ecosystem_presence
              = Clamped(call.inputs.ecosystem_score, 0, Pt(20))
         /\ result = compute_name_score(
                [call.inputs EXCEPT
                    !.ecosystem_score = Clamped(call.inputs.ecosystem_score, 0, Pt(20))])

\* ---- monotonicity

\* C11: all other fields equal, a larger audit_count never lowers the score
\* of compute_name_score, a larger test_coverage_pct never lowers the score
\* of compute_essence_score, and a smaller open_critical never lowers the
\* score of compute_image_score.
C11_Monotone ==
    /\ Returned("compute_name_score") =>
         \A a \in Audits :
             a >= call.inputs.audit_count =>
                 compute_name_score([call.inputs EXCEPT !.audit_count = a])[1]
                   >= result[1]
    /\ Returned("compute_essence_score") =>
         \A c \in Coverages :
             c >= call.inputs.test_coverage_pct =>
                 compute_essence_score([call.inputs EXCEPT !.test_coverage_pct = c])[1]
                   >= result[1]
    /\ Returned("compute_image_score") =>
         \A c \in OpenCounts :
             c <= call.inputs.open_critical =>
                 compute_image_score([call.inputs EXCEPT !.open_critical = c])[1]
                   >= result[1]

\* a call with two audits has returned a score that is neither 0 nor 100 and
\* that a third audit raises
C11_Witness ==
    /\ Returned("compute_name_score")
    /\ InRangeName(call.inputs)
    /\ call.inputs.audit_count = 2
    /\ result[1] > 0
    /\ compute_name_score([call.inputs EXCEPT !.audit_count = 3])[1] > result[1]

\* ---- independence of the calculators

Dimensions == {"name", "image", "likeness", "essence"}

\* the input records the combiner is exercised with, per dimension
NileInputsOf(d) ==
    CASE d = "name" -> NileNameInputs
      [] d = "image" -> NileImageInputs
      [] d = "likeness" -> NileLikenessInputs
      [] d = "essence" -> NileEssenceInputs

\* the current compute_nile_score call run again with the record of
\* dimension d replaced by x
NileWith(d, x) ==
    compute_nile_score(IF d = "name" THEN x ELSE call.name_inputs,
                       IF d = "image" THEN x ELSE call.image_inputs,
                       IF d = "likeness" THEN x ELSE call.likeness_inputs,
                       IF d = "essence" THEN x ELSE call.essence_inputs,
                       call.weights, fp_tie_up)

\* the sub-score and the details entry that a result reports for dimension e
Reported(value, e) ==
    <<CASE e = "name" -> value.name_score
        [] e = "image" -> value.image_score
        [] e = "likeness" -> value.likeness_score
        [] e = "essence" -> value.essence_score,
      value.details[e]>>

\* C13: with the weights fixed, replacing one of the four input records of
\* a compute_nile_score call leaves the sub-scores and the details entries
\* of the other three dimensions as they were.
C13_CalculatorsIndependent ==
    Returned("compute_nile_score") =>
        \A d \in Dimensions :
            \A x \in NileInputsOf(d) :
                /\ NileWith(d, x).raised = "none"
                /\ \A e \in Dimensions \ {d} :
                       Reported(NileWith(d, x).value, e) = Reported(result, e)

\* a call has returned whose likeness sub-score another likeness record
\* would change
C13_Witness ==
    /\ Returned("compute_nile_score")
    /\ \E x \in NileLikenessInputs :
          Reported(NileWith("likeness", x).value, "likeness")
            # Reported(result, "likeness")

\* ---- score from details

InRangeEssence(i) ==
    /\ i.test_coverage_pct >= 0 /\ i.test_coverage_pct <= Pt(100)
    /\ i.avg_cyclomatic_complexity >= 0
    /\ i.external_call_count >= 0

InRange(c) ==
    CASE c.fn = "compute_name_score" -> InRangeName(c.inputs)
      [] c.fn = "compute_image_score" -> InRangeImage(c.inputs)
      [] c.fn = "compute_likeness_score" -> TRUE
      [] c.fn = "compute_essence_score" -> InRangeEssence(c.inputs)

\* the point-valued entries of a calculator's details (the counts that
\* compute_image_score and compute_likeness_score also report are left out)
Contributions(fn, details) ==
    CASE fn = "compute_name_score" ->
           <<details.source_verified, details.audit_history, details.maturity,
             details.team_identification, details.ecosystem_presence>>
      [] fn = "compute_image_score" ->
           <<details.base_from_vulns, details.patch_cadence_bonus,
             details.trend_adjustment>>
      [] fn = "compute_likeness_score" ->
           <<details.slither_deductions, details.pattern_match_deductions>>
      [] fn = "compute_essence_score" ->
           <<details.test_coverage, details.complexity, details.upgrade_risk,
             details.dependency_risk>>

RECURSIVE SumSeq(_)
SumSeq(q) == IF q = <<>> THEN 0 ELSE Head(q) + SumSeq(Tail(q))

RECURSIVE PositiveSum(_)
PositiveSum(q) ==
    IF q = <<>> THEN 0
    ELSE (IF Head(q) > 0 THEN Head(q) ELSE 0) + PositiveSum(Tail(q))

\* C14 as claimed: for each calculator and all valid inputs the score is the
\* sum of the positive contributions in the details, clamped to [0, 100].
C14_PositiveSumIsScore ==
    (raised = "none" /\ call.fn \in Calculators /\ InRange(call)) =>
        result[1] = Clamped(PositiveSum(Contributions(call.fn, result[2])), 0, Pt(100))

\* C14 as amended: for each calculator and all inputs the score is
\* reconstructable from the details alone: for compute_name_score and
\* compute_essence_score it is the sum of all the contributions, for
\* compute_image_score it is base_from_vulns + patch_cadence_bonus +
\* trend_adjustment (the trend taken with its sign), for
\* compute_likeness_score it is 100 - slither_deductions -
\* pattern_match_deductions, each clamped to [0, 100].
C14_DetailsGiveScore ==
    (raised = "none" /\ call.fn \in Calculators) =>
        result[1] =
            Clamped(IF call.fn = "compute_likeness_score"
                    THEN Pt(100) - SumSeq(Contributions(call.fn, result[2]))
                    ELSE SumSeq(Contributions(call.fn, result[2])),
                    0, Pt(100))

\* a likeness call has returned a score strictly between 0 and 100 with
\* deductions from both lists
C14_Witness ==
    /\ Returned("compute_likeness_score")
    /\ result[2].slither_deductions > 0
    /\ result[2].pattern_match_deductions > 0
    /\ result[1] > 0
    /\ result[1] < Pt(100)

\* ---- essence

\* C15: for valid inputs each of the four components of
\* compute_essence_score lies in [0, 25], upgrade_risk being 25 less 10 for
\* a proxy pattern, 5 for admin keys and 5 for no timelock, so the sum lies
\* in [0, 100] and the final clamp leaves it as it is.
C15_ComponentsWithin25 ==
    (Returned("compute_essence_score") /\ InRangeEssence(call.inputs)) =>
        LET d == result[2]
            sum == d.test_coverage + d.complexity + d.upgrade_risk + d.dependency_risk
        IN  /\ \A f \in {"test_coverage", "complexity", "upgrade_risk",
                         "dependency_risk"} : d[f] >= 0 /\ d[f] <= Pt(25)
            /\ d.upgrade_risk =
                 Pt(25) - (IF call.inputs.has_proxy_pattern THEN Pt(10) ELSE 0)
                        - (IF call.inputs.has_admin_keys THEN Pt(5) ELSE 0)
                        - (IF call.inputs.has_timelock THEN 0 ELSE Pt(5))
            /\ sum >= 0 /\ sum <= Pt(100)
            /\ result[1] = sum

\* a valid call with a proxy, admin keys, no timelock and more external
\* calls than the dependency component has points for has returned
C15_Witness ==
    /\ Returned("compute_essence_score")
    /\ InRangeEssence(call.inputs)
    /\ call.inputs.has_proxy_pattern /\ call.inputs.has_admin_keys
    /\ ~call.inputs.has_timelock
    /\ call.inputs.external_call_count * 2 > 25
    /\ result[2].upgrade_risk = Pt(5)
    /\ result[2].dependency_risk = 0

\* C16: the complexity component is clamp(25 - (complexity - 5) * 2.5, 0,
\* 25): exactly 25 at complexity 5 and below, 2.5 less per unit above 5,
\* exactly 0 at complexity 15 and above.
C16_ComplexityComponent ==
    Returned("compute_essence_score") =>
        LET x == call.inputs.avg_cyclomatic_complexity
        IN  result[2].complexity =
                CASE x <= Pt(5) -> Pt(25)
                  [] x >= Pt(15) -> 0
                  [] x > Pt(5) /\ x < Pt(15) -> Pt(25) - (5 * (x - Pt(5))) \div 2

\* a call with a complexity below 5 has returned a complexity component of
\* exactly 25
C16_Witness ==
    /\ Returned("compute_essence_score")
    /\ call.inputs.avg_cyclomatic_complexity < Pt(5)
    /\ result[2].complexity = Pt(25)

\* ---- determinism

Handled == consumed' = consumed + 1

\* the channel the event in a message's data is for
ChannelFor(data) ==
    LET event == json_loads(data).value
        metadata == get(event.val, "metadata", Dict(<<>>))
    IN  IF get(metadata.val, "severity", "") \in ContainsCritical
        THEN "nile-alerts" ELSE "nile-feed"

\* C17 as stated: after a failure, every later message of type "message"
\* is passed to _route_event, messages of other types are not, and each
\* routed event is sent to exactly the one channel that is for it, or to
\* none when that channel is not managed.
C17_LaterMessagesRoutedAndSent ==
    /\ (failed_before /\ last.type = "message") => last.routed
    /\ (failed_before /\ last.type # "message") => ~last.routed
    /\ (last.routed /\ last.target # "") =>
          /\ last.target = ChannelFor(last.data)
          /\ last.sent = IF last.target \in _channels THEN <<last.target>> ELSE <<>>

\* what the loop did with a message, given how decoding and routing went
HandledAsDecoded(it) ==
    /\ it.type # "message" => (~it.routed /\ ~it.logged /\ it.sent = <<>>)
    /\ it.type = "message" => (it.routed <=> json_loads(it.data).raised = "none")
    /\ it.logged <=> it.error # "none"
    /\ it.sent \in {<<>>, <<it.target>>}
    /\ it.sent # <<>> => (it.routed /\ it.target = ChannelFor(it.data) /\ it.target \in _channels)
    /\ it.error \in {"JSONDecodeError", "AttributeError", "TypeError"} => it.sent = <<>>
    /\ (it.routed /\ it.error = "none") =>
          /\ it.target = ChannelFor(it.data)
          /\ it.sent = IF it.target \in _channels THEN <<it.target>> ELSE <<>>

\* C17, amended: handling a message never ends the listener, whether or
\* not an earlier message failed; a message of another type is skipped; a
\* message of type "message" is passed to _route_event exactly when its
\* data decodes; a failure of decoding or routing is logged, and nothing
\* is sent when it comes before the send; an event is sent to at most one
\* channel, the one that is for it, and one routed without failure to
\* exactly that channel, or to none when that channel is not managed.
C17_FailureNeverStopsListener ==
    [][Handled => (pc' = "listening" /\ ~last'.escaped /\ HandledAsDecoded(last'))]_vars

\* after an earlier message failed, a critical event has been routed and
\* sent to nile-alerts, and the listener is still listening
C17_Witness ==
    /\ pc = "listening"
    /\ failed_before
    /\ last.routed
    /\ last.error = "none"
    /\ last.sent = <<"nile-alerts">>

====
